---- MODULE Spec2Model ----
(***************************************************************************)
(* A model of the skyward ECS core (crate `ecs`): the sparse-set component *)
(* store (component.rs), the entity allocator, the EntityManager and the   *)
(* EntityQueryTable (entity.rs).                                           *)
(*                                                                         *)
(* Rust values are modelled as follows.                                    *)
(*   Vec<T>            a sequence; Rust index i is TLA+ index i + 1        *)
(*   HashMap<K, V>     a function whose DOMAIN is the set of present keys  *)
(*   Option<T>         None, or Some(x) == [some |-> TRUE, val |-> x]      *)
(*   TypeId            one of the strings in Types                         *)
(* world.rs is modelled in the section on the World: the system lists, the *)
(* sweep of World::update and the thread it spawns.                        *)
(***************************************************************************)
EXTENDS Integers, Sequences, FiniteSets, TLC

VARIABLES entity_manager, entity_query_table, store, inserted, last, steps, world

vars == <<entity_manager, entity_query_table, store, inserted, last, steps, world>>

----------------------------------------------------------------------------
(* Bounds of the model *)

MaxEntities == 2
MaxStoreEntities == 3
MaxValue == 2
MaxSteps == 5
MaxTupleLen == 2
MaxWorldSteps == 4

Types == {"A", "B", "C"}
EntityIds == 0 .. (MaxEntities - 1)
StoreEntityIds == 0 .. (MaxStoreEntities - 1)
Values == 1 .. MaxValue

RECURSIVE TuplesOfLen(_)
TuplesOfLen(n) ==
    IF n = 0 THEN {<<>>}
    ELSE {Append(t, T) : t \in TuplesOfLen(n - 1), T \in Types}

Range(s) == {s[i] : i \in 1 .. Len(s)}

\* the tuples a query is asked with: 1 .. MaxTupleLen distinct component types
Tuples ==
    {t \in UNION {TuplesOfLen(n) : n \in 1 .. MaxTupleLen} :
        Cardinality(Range(t)) = Len(t)}

----------------------------------------------------------------------------
(* Option and HashMap *)

None == [some |-> FALSE, val |-> <<>>]
Some(x) == [some |-> TRUE, val |-> x]

MapInsert(m, k, v) == [x \in (DOMAIN m) \cup {k} |-> IF x = k THEN v ELSE m[x]]
MapRemove(m, k) == [x \in (DOMAIN m) \ {k} |-> m[x]]
EmptyMap == [x \in {} |-> 0]

----------------------------------------------------------------------------
(* component.rs: SimpleComponentManager<T> *)

SimpleComponentManager_new ==
    [components |-> <<>>, entities |-> <<>>, entity_idx |-> EmptyMap]

\* Vec::remove(index) in place of swap_remove: the tail is shifted down
swap_remove_shift(v, index) ==
    SubSeq(v, 1, index) \o SubSeq(v, index + 2, Len(v))

\* Vec::swap_remove(index): the last element takes the place of the removed one
swap_remove(v, index) ==
    LET n == Len(v)
        moved == [v EXCEPT ![index + 1] = v[n]]
    IN  SubSeq(moved, 1, n - 1)

has(m, entity) == \E i \in 1 .. Len(m.entities) : m.entities[i] = entity

\* clear that leaves the index-map entry of the removed entity
clear_keep_index(m, entity) ==
    IF ~has(m, entity) THEN m
    ELSE
        LET index == m.entity_idx[entity]
            lastEntity == m.entities[Len(m.entities)]
        IN  [components |-> swap_remove(m.components, index),
             entities   |-> swap_remove(m.entities, index),
             entity_idx |-> MapInsert(m.entity_idx, lastEntity, index)]

\* clear that pops the last element when the entity is absent
clear_absent_pops(m, entity) ==
    IF has(m, entity) \/ m.entities = <<>>
        THEN IF ~has(m, entity) THEN m
             ELSE LET index == m.entity_idx[entity]
                      lastEntity == m.entities[Len(m.entities)]
                      idx1 == MapInsert(m.entity_idx, lastEntity, index)
                  IN  [components |-> swap_remove(m.components, index),
                       entities   |-> swap_remove(m.entities, index),
                       entity_idx |-> MapRemove(idx1, entity)]
        ELSE [components |-> SubSeq(m.components, 1, Len(m.components) - 1),
              entities   |-> SubSeq(m.entities, 1, Len(m.entities) - 1),
              entity_idx |-> MapRemove(m.entity_idx, m.entities[Len(m.entities)])]

\* clear that forgets to re-index the element moved into the freed slot
clear_stale_index(m, entity) ==
    IF ~has(m, entity) THEN m
    ELSE
        LET index == m.entity_idx[entity]
        IN  [components |-> swap_remove(m.components, index),
             entities   |-> swap_remove(m.entities, index),
             entity_idx |-> MapRemove(m.entity_idx, entity)]

clear(m, entity) ==
    IF ~has(m, entity) THEN m
    ELSE
        LET index == m.entity_idx[entity]
            lastEntity == m.entities[Len(m.entities)]
            idx1 == MapInsert(m.entity_idx, lastEntity, index)
        IN  [components |-> swap_remove(m.components, index),
             entities   |-> swap_remove(m.entities, index),
             entity_idx |-> MapRemove(idx1, entity)]

\* with that overwrites the component of an entity that already holds one
with_overwrite(m, entity, component) ==
    IF has(m, entity)
        THEN [m EXCEPT !.components[m.entity_idx[entity] + 1] = component]
        ELSE [components |-> Append(m.components, component),
              entities   |-> Append(m.entities, entity),
              entity_idx |-> MapInsert(m.entity_idx, entity, Len(m.components))]

with(m, entity, component) ==
    IF has(m, entity) THEN m
    ELSE
        LET comps == Append(m.components, component)
        IN  [components |-> comps,
             entities   |-> Append(m.entities, entity),
             entity_idx |-> MapInsert(m.entity_idx, entity, Len(comps) - 1)]

component(m, entity) ==
    IF entity \in DOMAIN m.entity_idx
        THEN Some(m.components[m.entity_idx[entity] + 1])
        ELSE None

component_mut(m, entity) ==
    IF entity \in DOMAIN m.entity_idx
        THEN Some(m.components[m.entity_idx[entity] + 1])
        ELSE None

----------------------------------------------------------------------------
(* entity.rs: EntityContainer *)

Entity_new(id) == [id |-> id, alive |-> TRUE]

EntityContainer_new == [entities |-> <<>>, dead_idx |-> <<>>]

EntityContainer_has(c, entity_id) == entity_id < Len(c.entities)

\* returns the container after the call and the returned index
EntityContainer_entity(c) ==
    IF c.dead_idx # <<>>
        THEN \* `entity.alive = true` is written to a copy of the stored Entity
             [container |-> [c EXCEPT !.dead_idx = Tail(c.dead_idx)],
              ret |-> Head(c.dead_idx)]
        ELSE LET id == Len(c.entities) + 1
             IN  [container |-> [c EXCEPT !.entities = Append(c.entities, Entity_new(id))],
                  ret |-> id - 1]

\* remove that queues the id without asking has first
EntityContainer_remove_unchecked(c, entity_id) ==
    [entities |-> IF EntityContainer_has(c, entity_id)
                    THEN [c.entities EXCEPT ![entity_id + 1].alive = FALSE]
                    ELSE c.entities,
     dead_idx |-> Append(c.dead_idx, entity_id)]

EntityContainer_remove(c, entity_id) ==
    IF ~EntityContainer_has(c, entity_id) THEN c
    ELSE [entities |-> [c.entities EXCEPT ![entity_id + 1].alive = FALSE],
          dead_idx |-> Append(c.dead_idx, entity_id)]

----------------------------------------------------------------------------
(* entity.rs: EntityManager *)

EntityManager_new ==
    [container |-> EntityContainer_new,
     managers  |-> EmptyMap,
     frame_map |-> EmptyMap,
     frame     |-> 0]

get_updated_frame(m, T) ==
    IF T \in DOMAIN m.frame_map THEN m.frame_map[T] ELSE 0

\* register that replaces the store and changed-frame of a registered type
register_reset(m, T) ==
    [m EXCEPT !.managers  = MapInsert(m.managers, T, SimpleComponentManager_new),
              !.frame_map = MapInsert(m.frame_map, T, m.frame)]

register(m, T) ==
    IF T \in DOMAIN m.managers THEN m
    ELSE [m EXCEPT !.managers  = MapInsert(m.managers, T, SimpleComponentManager_new),
                   !.frame_map = MapInsert(m.frame_map, T, m.frame)]

\* remove_entity that frees the id without clearing the component stores
remove_entity_keep_stores(m, entity_id) ==
    [m EXCEPT
        !.frame_map = [T \in (DOMAIN m.frame_map) \cup (DOMAIN m.managers) |->
                          IF T \in DOMAIN m.managers THEN m.frame + 1
                          ELSE m.frame_map[T]],
        !.container = EntityContainer_remove(m.container, entity_id)]

\* the loop over self.managers touches every registered type independently,
\* so the HashMap iteration order does not show in the result
remove_entity(m, entity_id) ==
    [m EXCEPT
        !.managers  = [T \in DOMAIN m.managers |-> clear(m.managers[T], entity_id)],
        !.frame_map = [T \in (DOMAIN m.frame_map) \cup (DOMAIN m.managers) |->
                          IF T \in DOMAIN m.managers THEN m.frame + 1
                          ELSE m.frame_map[T]],
        !.container = EntityContainer_remove(m.container, entity_id)]

\* tick_frame that skips a frame
tick_frame_skip(m) == [m EXCEPT !.frame = m.frame + 2]

tick_frame(m) == [m EXCEPT !.frame = m.frame + 1]

\* entity_with that marks the change for the next frame, as remove_entity does
entity_with_next_frame(m, T, entity_id, comp) ==
    LET m1 == IF T \notin DOMAIN m.managers THEN register(m, T) ELSE m
        m2 == [m1 EXCEPT !.managers[T] = with(m1.managers[T], entity_id, comp)]
    IN  [m2 EXCEPT !.frame_map = MapInsert(m2.frame_map, T, m2.frame + 1)]

entity_with(m, T, entity_id, comp) ==
    LET m1 == IF T \notin DOMAIN m.managers THEN register(m, T) ELSE m
        m2 == IF T \in DOMAIN m1.managers
                THEN [m1 EXCEPT !.managers[T] = with(m1.managers[T], entity_id, comp)]
                ELSE m1
    IN  [m2 EXCEPT !.frame_map = MapInsert(m2.frame_map, T, m2.frame)]

query_entity_ids(m, T) ==
    IF T \in DOMAIN m.managers THEN Some(m.managers[T].entities) ELSE None

\* The typed accessors are modelled up to the value they return: None, Some
\* of what the returned reference points to, or a panic (an unwrap of None).
Returned(ret) == [panic |-> FALSE, ret |-> ret]
Panicked == [panic |-> TRUE, ret |-> None]

borrow_manager(m, T) ==
    IF T \in DOMAIN m.managers THEN Some(m.managers[T]) ELSE None

borrow_manager_mut(m, T) ==
    IF T \in DOMAIN m.managers THEN Some(m.managers[T]) ELSE None

\* EntityManager::query<T>: self.managers.get(..).unwrap()
EntityManager_query(m, T) ==
    IF T \in DOMAIN m.managers
        THEN Returned(Some(m.managers[T].components))
        ELSE Panicked

\* the query! macro (query_entity, query_entity_two, ...): the tuple is built
\* type by type; `?` leaves with None at a type without manager, unwrap
\* panics at a type the entity holds no component of
RECURSIVE query_entity_from(_, _, _, _)
query_entity_from(m, tup, entity, acc) ==
    IF tup = <<>> THEN Returned(Some(acc))
    ELSE LET T == Head(tup)
         IN  IF T \notin DOMAIN m.managers THEN Returned(None)
             ELSE LET c == component_mut(m.managers[T], entity)
                  IN  IF ~c.some THEN Panicked
                      ELSE query_entity_from(m, Tail(tup), entity, Append(acc, c.val))

query_entity(m, tup, entity) == query_entity_from(m, tup, entity, <<>>)

----------------------------------------------------------------------------
(* entity.rs: EntityQueryTable *)

EntityQueryTable_new == [query_cache |-> EmptyMap, frames |-> EmptyMap]

\* query_single that copies the store's list on every call
query_single_refresh(tab, m, T) ==
    LET tab1 == [tab EXCEPT !.query_cache = MapInsert(tab.query_cache, T, <<>>)]
    IN  IF T \notin DOMAIN m.managers
            THEN [table |-> tab1, ret |-> None]
            ELSE LET tab2 == [tab1 EXCEPT !.query_cache[T] = m.managers[T].entities]
                 IN  [table |-> tab2, ret |-> Some(tab2.query_cache[T])]

\* returns the table after the call and the returned Option<&Vec<usize>>
query_single(tab, m, T) ==
    IF T \notin DOMAIN tab.query_cache
        THEN LET tab1 == [tab EXCEPT !.query_cache = MapInsert(tab.query_cache, T, <<>>)]
             IN  IF T \notin DOMAIN m.managers
                    THEN [table |-> tab1, ret |-> None]
                    ELSE LET ents == m.managers[T].entities
                             tab2 == [tab1 EXCEPT !.query_cache[T] = ents]
                         IN  [table |-> tab2, ret |-> Some(tab2.query_cache[T])]
        ELSE [table |-> tab, ret |-> Some(tab.query_cache[T])]

\* the closure that copies the store's list on every call
rebuild_one_always(st, T, entities, update_frame) ==
    LET tab == st.table
        tab2 == [query_cache |-> MapInsert(tab.query_cache, T, entities),
                 frames |-> MapInsert(tab.frames, T, update_frame)]
    IN  [table |-> tab2, vec |-> st.vec \o tab2.query_cache[T]]

\* the closure that takes a cache entry without recorded frame as up to date
\* (unwrap_or(&data.update_frame))
rebuild_one_trust_cache(st, T, entities, update_frame) ==
    LET tab == st.table
        known == T \in DOMAIN tab.query_cache
        tab1 == IF known THEN tab
                ELSE [tab EXCEPT !.query_cache = MapInsert(tab.query_cache, T, <<>>)]
        recorded == IF T \in DOMAIN tab.frames THEN tab.frames[T] ELSE update_frame
        update == IF known THEN update_frame # recorded ELSE TRUE
        tab2 == IF update
                  THEN [query_cache |-> [tab1.query_cache EXCEPT ![T] = entities],
                        frames |-> MapInsert(tab1.frames, T, update_frame)]
                  ELSE tab1
    IN  [table |-> tab2, vec |-> st.vec \o tab2.query_cache[T]]

\* the closure of the first for_every_type call of query, applied to one TupleData
rebuild_one(st, T, entities, update_frame) ==
    LET tab == st.table
        known == T \in DOMAIN tab.query_cache
        tab1 == IF known THEN tab
                ELSE [tab EXCEPT !.query_cache = MapInsert(tab.query_cache, T, <<>>)]
        recorded == IF T \in DOMAIN tab.frames THEN tab.frames[T] ELSE update_frame + 1
        update == IF known THEN update_frame # recorded ELSE TRUE
        tab2 == IF update
                  THEN [query_cache |-> [tab1.query_cache EXCEPT ![T] = entities],
                        frames |-> MapInsert(tab1.frames, T, update_frame)]
                  ELSE tab1
    IN  [table |-> tab2, vec |-> st.vec \o tab2.query_cache[T]]

\* vec.retain(|e| e == entity) for every entity of to_remove, in order
RECURSIVE retain_all(_, _)
retain_all(vec, to_remove) ==
    IF to_remove = <<>> THEN vec
    ELSE retain_all(SelectSeq(vec, LAMBDA e : e = Head(to_remove)), Tail(to_remove))

\* the closure of the second for_every_type call of query, applied to one TupleData
filter_one(vec, entities) ==
    LET to_remove == SelectSeq(vec, LAMBDA e : e \notin Range(entities))
    IN  retain_all(vec, to_remove)

\* Tuple::for_every_type with the first closure: `?` leaves at the first
\* unregistered type, the types before it have been processed
RECURSIVE for_every_type_rebuild(_, _, _)
for_every_type_rebuild(st, m, tup) ==
    IF tup = <<>> THEN st
    ELSE LET T == Head(tup)
             ids == query_entity_ids(m, T)
         IN  IF ~ids.some THEN st
             ELSE for_every_type_rebuild(
                      rebuild_one(st, T, ids.val, get_updated_frame(m, T)), m, Tail(tup))

RECURSIVE for_every_type_filter(_, _, _)
for_every_type_filter(vec, m, tup) ==
    IF tup = <<>> THEN vec
    ELSE LET ids == query_entity_ids(m, Head(tup))
         IN  IF ~ids.some THEN vec
             ELSE for_every_type_filter(filter_one(vec, ids.val), m, Tail(tup))

\* returns the table after the call and the returned Option<Vec<usize>>
query(tab, m, tup) ==
    LET st == for_every_type_rebuild([table |-> tab, vec |-> <<>>], m, tup)
        vec == for_every_type_filter(st.vec, m, tup)
    IN  [table |-> st.table, ret |-> Some(vec)]

----------------------------------------------------------------------------
(* lib.rs, system.rs: the systems a World is given.  A system is a record   *)
(* [id, kind]; id numbers the with_system / with_threaded_system calls,     *)
(* kind selects the body of its update.                                     *)

Named == "A"
Position == "B"

SystemTypes == {"Init", "Loop"}
SystemKinds == {"NameSystem", "AttachSystem"}
ThreadedKinds == {"AttachSystem"}

\* the result of one System::update call: the manager and table it leaves,
\* the Option<()> it returns, and whether it panicked
SystemResult(m, tab, ret, panic) ==
    [manager |-> m, table |-> tab, ret |-> ret, panic |-> panic]

\* the for loop of NameSystem over the queried ids: the Position of every
\* listed entity is moved by one step; a failed lookup leaves the loop
RECURSIVE NameSystem_each(_, _, _)
NameSystem_each(m, tab, entity_ids) ==
    IF entity_ids = <<>> THEN SystemResult(m, tab, None, FALSE)
    ELSE LET entity == Head(entity_ids)
             queried == query_entity(m, <<Position, Named>>, entity)
         IN  IF queried.panic THEN SystemResult(m, tab, None, TRUE)
             ELSE IF ~queried.ret.some THEN SystemResult(m, tab, None, FALSE)
             ELSE LET index == m.managers[Position].entity_idx[entity]
                      moved == [m EXCEPT !.managers[Position].components[index + 1] = @ + 1]
                  IN  NameSystem_each(moved, tab, Tail(entity_ids))

\* NameSystem of the crate's test: query<(Named, Position)>, then the loop
NameSystem_update(m, tab) ==
    LET r == query(tab, m, <<Named, Position>>)
    IN  IF ~r.ret.some THEN SystemResult(m, r.table, None, FALSE)
        ELSE NameSystem_each(m, r.table, r.ret.val)

\* a system that attaches Named and Position to entity 0 and returns Some(())
AttachSystem_update(m, tab) ==
    SystemResult(entity_with(entity_with(m, Named, 0, 1), Position, 0, 1),
                 tab, Some(<<>>), FALSE)

System_update(system, m, tab) ==
    IF system.kind = "NameSystem" THEN NameSystem_update(m, tab)
    ELSE AttachSystem_update(m, tab)

----------------------------------------------------------------------------
(* world.rs: World.  `world` holds the four system lists of the            *)
(* SystemContainer, the position of the caller inside World::update (main), *)
(* the threads spawned by update calls, and two records kept for the        *)
(* properties: registered (the ids given to with_system, per SystemType,    *)
(* in call order) and overlap (the caller touched the World while a         *)
(* spawned thread was inside a system update).                              *)

MainIdle == [pc |-> "idle", system_type |-> "Init", idx |-> 1, f0 |-> 0, log |-> <<>>,
             entry |-> EntityManager_new]

World_new ==
    [loop_systems |-> <<>>, init_systems |-> <<>>,
     threaded_loop_systems |-> <<>>, threaded_init_systems |-> <<>>,
     main |-> MainIdle, threads |-> <<>>,
     registered |-> [t \in SystemTypes |-> <<>>],
     next_id |-> 0, overlap |-> FALSE]

\* with_system that pushes onto the list named after the phase
with_system_by_name(w, system_type, system) ==
    IF system_type = "Init"
        THEN [w EXCEPT !.init_systems = Append(@, system)]
        ELSE [w EXCEPT !.loop_systems = Append(@, system)]

with_system(w, system_type, system) ==
    IF system_type = "Init"
        THEN [w EXCEPT !.loop_systems = Append(@, system)]
        ELSE [w EXCEPT !.init_systems = Append(@, system)]

with_threaded_system(w, system_type, system) ==
    IF system_type = "Init"
        THEN [w EXCEPT !.threaded_loop_systems = Append(@, system)]
        ELSE [w EXCEPT !.threaded_init_systems = Append(@, system)]

\* update that reads the list named after the phase
update_systems_by_name(w, system_type) ==
    IF system_type = "Init" THEN w.init_systems ELSE w.loop_systems

\* the first match of World::update
update_systems(w, system_type) ==
    IF system_type = "Init" THEN w.loop_systems ELSE w.init_systems

\* a for loop that stops at the first system returning None
sweep_next_until_none(systems, i, ret) ==
    IF ret.some THEN i + 1 ELSE Len(systems) + 1

\* the for loop of World::update goes on to the next system whatever the
\* system returned
sweep_next(systems, i, ret) ==
    i + 1

\* the second match of World::update
update_threaded_systems(w, system_type) ==
    IF system_type = "Init" THEN w.threaded_loop_systems ELSE w.threaded_init_systems

----------------------------------------------------------------------------
(* The calls a user of the EntityManager and EntityQueryTable can make.   *)
(* `last` records the last call: its name, arguments and returned value,   *)
(* the component value it was given (0 when it takes none) and whether it  *)
(* panicked.                                                               *)

NoCall ==
    [op |-> "new", types |-> <<>>, entity |-> 0, ret |-> None,
     value |-> 0, panic |-> FALSE]

Call(op, types, entity, ret) ==
    [op |-> op, types |-> types, entity |-> entity, ret |-> ret,
     value |-> 0, panic |-> FALSE]

\* a call that takes a component value
CallWith(op, types, entity, value, ret) ==
    [Call(op, types, entity, ret) EXCEPT !.value = value]

\* the length of the call sequence is bounded by MaxSteps
OneMoreCall ==
    /\ steps < MaxSteps
    /\ steps' = steps + 1

Init ==
    /\ entity_manager = EntityManager_new
    /\ entity_query_table = EntityQueryTable_new
    /\ store = SimpleComponentManager_new
    /\ inserted = EmptyMap
    /\ last = NoCall
    /\ steps = 0
    /\ world = World_new

Register(T) ==
    /\ OneMoreCall
    /\ entity_manager' = register(entity_manager, T)
    /\ last' = Call("register", <<T>>, 0, None)
    /\ UNCHANGED <<entity_query_table, store, inserted, world>>

CreateEntity ==
    /\ OneMoreCall
    /\ LET r == EntityContainer_entity(entity_manager.container)
       IN  /\ entity_manager' = [entity_manager EXCEPT !.container = r.container]
           /\ last' = Call("entity", <<>>, r.ret, None)
    /\ UNCHANGED <<entity_query_table, store, inserted, world>>

RemoveEntity(e) ==
    /\ OneMoreCall
    /\ entity_manager' = remove_entity(entity_manager, e)
    /\ last' = Call("remove_entity", <<>>, e, None)
    /\ UNCHANGED <<entity_query_table, store, inserted, world>>

TickFrame ==
    /\ OneMoreCall
    /\ entity_manager' = tick_frame(entity_manager)
    /\ last' = Call("tick_frame", <<>>, 0, None)
    /\ UNCHANGED <<entity_query_table, store, inserted, world>>

EntityWith(T, e, v) ==
    /\ OneMoreCall
    /\ entity_manager' = entity_with(entity_manager, T, e, v)
    /\ last' = CallWith("entity_with", <<T>>, e, v, None)
    /\ UNCHANGED <<entity_query_table, store, inserted, world>>

QuerySingle(T) ==
    /\ OneMoreCall
    /\ LET r == query_single(entity_query_table, entity_manager, T)
       IN  /\ entity_query_table' = r.table
           /\ last' = Call("query_single", <<T>>, 0, r.ret)
    /\ UNCHANGED <<entity_manager, store, inserted, world>>

Query(tup) ==
    /\ OneMoreCall
    /\ LET r == query(entity_query_table, entity_manager, tup)
       IN  /\ entity_query_table' = r.table
           /\ last' = Call("query", tup, 0, r.ret)
    /\ UNCHANGED <<entity_manager, store, inserted, world>>

Next ==
    \/ \E T \in Types : Register(T)
    \/ CreateEntity
    \/ \E e \in EntityIds : RemoveEntity(e)
    \/ TickFrame
    \/ \E T \in Types, e \in EntityIds, v \in Values : EntityWith(T, e, v)
    \/ \E T \in Types : QuerySingle(T)
    \/ \E tup \in Tuples : Query(tup)

Spec == Init /\ [][Next]_vars

----------------------------------------------------------------------------
(* The EntityManager with its typed accessors, without the query table.    *)

\* the record of an accessor call
CallReturned(op, types, entity, r) ==
    [Call(op, types, entity, r.ret) EXCEPT !.panic = r.panic]

QueryEntity(tup, e) ==
    /\ OneMoreCall
    /\ last' = CallReturned("query_entity", tup, e, query_entity(entity_manager, tup, e))
    /\ UNCHANGED <<entity_manager, entity_query_table, store, inserted, world>>

ManagerQuery(T) ==
    /\ OneMoreCall
    /\ last' = CallReturned("manager_query", <<T>>, 0, EntityManager_query(entity_manager, T))
    /\ UNCHANGED <<entity_manager, entity_query_table, store, inserted, world>>

BorrowManager(T) ==
    /\ OneMoreCall
    /\ last' = Call("borrow_manager", <<T>>, 0, borrow_manager(entity_manager, T))
    /\ UNCHANGED <<entity_manager, entity_query_table, store, inserted, world>>

BorrowManagerMut(T) ==
    /\ OneMoreCall
    /\ last' = Call("borrow_manager_mut", <<T>>, 0, borrow_manager_mut(entity_manager, T))
    /\ UNCHANGED <<entity_manager, entity_query_table, store, inserted, world>>

QueryEntityIds(T) ==
    /\ OneMoreCall
    /\ last' = Call("query_entity_ids", <<T>>, 0, query_entity_ids(entity_manager, T))
    /\ UNCHANGED <<entity_manager, entity_query_table, store, inserted, world>>

NextAccess ==
    \/ \E T \in Types : Register(T)
    \/ CreateEntity
    \/ \E e \in EntityIds : RemoveEntity(e)
    \/ TickFrame
    \/ \E T \in Types, e \in EntityIds, v \in Values : EntityWith(T, e, v)
    \/ \E tup \in Tuples, e \in EntityIds : QueryEntity(tup, e)
    \/ \E T \in Types : ManagerQuery(T)
    \/ \E T \in Types : BorrowManager(T)
    \/ \E T \in Types : BorrowManagerMut(T)
    \/ \E T \in Types : QueryEntityIds(T)

SpecAccess == Init /\ [][NextAccess]_vars

----------------------------------------------------------------------------
(* The World: its caller registers systems, touches the EntityManager      *)
(* through the World's wrappers and calls update.  World::update is        *)
(* followed step by step: a system update is entered (SystemBegin) and     *)
(* left (SystemEnd, which applies what the system did and ticks the        *)
(* frame); the thread spawned at the end of update sweeps the threaded     *)
(* systems the same way, on the same EntityManager and EntityQueryTable,   *)
(* while the caller goes on.  The thread is detached: update returns       *)
(* without joining it.                                                     *)

\* the length of the caller's call sequence is bounded by MaxWorldSteps
OneMoreWorldCall ==
    /\ steps < MaxWorldSteps
    /\ steps' = steps + 1

Idle == world.main.pc = "idle"

ThreadInUpdate ==
    \E i \in 1 .. Len(world.threads) : world.threads[i].pc = "in_update"

\* the Mutex around a threaded system list is held by a thread for the whole
\* of its for loop
ListLocked(system_type) ==
    \E i \in 1 .. Len(world.threads) :
        /\ world.threads[i].system_type = system_type
        /\ world.threads[i].pc \in {"sweep", "in_update"}

RemoveAt(seq, i) == SubSeq(seq, 1, i - 1) \o SubSeq(seq, i + 1, Len(seq))

\* a call of the caller that reaches into the EntityManager
Touched == [world EXCEPT !.overlap = ThreadInUpdate]

WorldEntity ==
    /\ Idle
    /\ OneMoreWorldCall
    /\ LET r == EntityContainer_entity(entity_manager.container)
       IN  /\ entity_manager' = [entity_manager EXCEPT !.container = r.container]
           /\ last' = Call("entity", <<>>, r.ret, None)
    /\ world' = Touched
    /\ UNCHANGED <<entity_query_table, store, inserted>>

WorldRemoveEntity(e) ==
    /\ Idle
    /\ OneMoreWorldCall
    /\ entity_manager' = remove_entity(entity_manager, e)
    /\ last' = Call("remove_entity", <<>>, e, None)
    /\ world' = Touched
    /\ UNCHANGED <<entity_query_table, store, inserted>>

WorldRegister(T) ==
    /\ Idle
    /\ OneMoreWorldCall
    /\ entity_manager' = register(entity_manager, T)
    /\ last' = Call("register", <<T>>, 0, None)
    /\ world' = Touched
    /\ UNCHANGED <<entity_query_table, store, inserted>>

WorldWith(T, e, v) ==
    /\ Idle
    /\ OneMoreWorldCall
    /\ entity_manager' = entity_with(entity_manager, T, e, v)
    /\ last' = CallWith("entity_with", <<T>>, e, v, None)
    /\ world' = Touched
    /\ UNCHANGED <<entity_query_table, store, inserted>>

WithSystem(system_type, kind) ==
    /\ Idle
    /\ OneMoreWorldCall
    /\ LET system == [id |-> world.next_id, kind |-> kind]
       IN  world' = [with_system(world, system_type, system) EXCEPT
                        !.registered[system_type] = Append(@, system.id),
                        !.next_id = @ + 1]
    /\ last' = Call("with_system", <<>>, 0, None)
    /\ UNCHANGED <<entity_manager, entity_query_table, store, inserted>>

WithThreadedSystem(system_type, kind) ==
    /\ Idle
    /\ ~ListLocked(system_type)
    /\ OneMoreWorldCall
    /\ LET system == [id |-> world.next_id, kind |-> kind]
       IN  world' = [with_threaded_system(world, system_type, system) EXCEPT
                        !.next_id = @ + 1]
    /\ last' = Call("with_threaded_system", <<>>, 0, None)
    /\ UNCHANGED <<entity_manager, entity_query_table, store, inserted>>

\* World::update is entered
Update(system_type) ==
    /\ Idle
    /\ OneMoreWorldCall
    /\ world' = [world EXCEPT !.main =
                    [pc |-> "sweep", system_type |-> system_type, idx |-> 1,
                     f0 |-> entity_manager.frame, log |-> <<>>,
                     entry |-> entity_manager]]
    /\ last' = Call("update", <<>>, 0, None)
    /\ UNCHANGED <<entity_manager, entity_query_table, store, inserted>>

\* the for loop of update locks the next system and enters its update
SystemBegin ==
    /\ world.main.pc = "sweep"
    /\ LET systems == update_systems(world, world.main.system_type)
           i == world.main.idx
       IN  /\ i <= Len(systems)
           /\ world' = [world EXCEPT
                  !.main.pc = "in_update",
                  !.main.log = Append(@, [id |-> systems[i].id,
                                          frame |-> entity_manager.frame,
                                          ret |-> None])]
    /\ UNCHANGED <<entity_manager, entity_query_table, store, inserted, last, steps>>

\* the system's update returns (its Option<()> is dropped) and the frame is
\* ticked; a panic inside the system ends the caller
SystemEnd ==
    /\ world.main.pc = "in_update"
    /\ LET systems == update_systems(world, world.main.system_type)
           i == world.main.idx
           r == System_update(systems[i], entity_manager, entity_query_table)
       IN  IF r.panic
             THEN /\ entity_manager' = r.manager
                  /\ entity_query_table' = r.table
                  /\ world' = [world EXCEPT !.main.pc = "panicked"]
                  /\ last' = [last EXCEPT !.panic = TRUE]
             ELSE /\ entity_manager' = tick_frame(r.manager)
                  /\ entity_query_table' = r.table
                  /\ world' = [world EXCEPT !.main.pc = "sweep",
                                            !.main.idx = sweep_next(systems, i, r.ret),
                                            !.main.log[i].ret = r.ret]
                  /\ last' = last
    /\ UNCHANGED <<store, inserted, steps>>

\* after the sweep update spawns the thread for the threaded systems and
\* returns to its caller
UpdateReturn ==
    /\ world.main.pc = "sweep"
    /\ world.main.idx > Len(update_systems(world, world.main.system_type))
    /\ world' = [world EXCEPT
           !.threads = Append(@, [system_type |-> world.main.system_type,
                                  pc |-> "spawned", idx |-> 1]),
           !.main = MainIdle]
    /\ UNCHANGED <<entity_manager, entity_query_table, store, inserted, last, steps>>

Running == world.main.pc # "panicked"

\* every update call spawns one thread
ThreadIds == 1 .. MaxWorldSteps

\* the spawned thread locks its system list
ThreadLock(t) ==
    /\ Running
    /\ t <= Len(world.threads)
    /\ world.threads[t].pc = "spawned"
    /\ ~ListLocked(world.threads[t].system_type)
    /\ world' = [world EXCEPT !.threads[t].pc = "sweep"]
    /\ UNCHANGED <<entity_manager, entity_query_table, store, inserted, last, steps>>

ThreadSystemBegin(t) ==
    /\ Running
    /\ t <= Len(world.threads)
    /\ world.threads[t].pc = "sweep"
    /\ world.threads[t].idx
          <= Len(update_threaded_systems(world, world.threads[t].system_type))
    /\ world' = [world EXCEPT !.threads[t].pc = "in_update"]
    /\ UNCHANGED <<entity_manager, entity_query_table, store, inserted, last, steps>>

ThreadSystemEnd(t) ==
    /\ Running
    /\ t <= Len(world.threads)
    /\ world.threads[t].pc = "in_update"
    /\ LET systems == update_threaded_systems(world, world.threads[t].system_type)
           r == System_update(systems[world.threads[t].idx],
                              entity_manager, entity_query_table)
       IN  /\ entity_manager' = tick_frame(r.manager)
           /\ entity_query_table' = r.table
    /\ world' = [world EXCEPT !.threads[t].pc = "sweep", !.threads[t].idx = @ + 1]
    /\ UNCHANGED <<store, inserted, last, steps>>

\* the thread's for loop is over: the lock is released and the thread ends
ThreadExit(t) ==
    /\ Running
    /\ t <= Len(world.threads)
    /\ world.threads[t].pc = "sweep"
    /\ world.threads[t].idx
          > Len(update_threaded_systems(world, world.threads[t].system_type))
    /\ world' = [world EXCEPT !.threads = RemoveAt(@, t)]
    /\ UNCHANGED <<entity_manager, entity_query_table, store, inserted, last, steps>>

NextWorld ==
    \/ WorldEntity
    \/ \E e \in EntityIds : WorldRemoveEntity(e)
    \/ \E T \in Types : WorldRegister(T)
    \/ \E T \in Types, e \in EntityIds, v \in Values : WorldWith(T, e, v)
    \/ \E t \in SystemTypes, k \in SystemKinds : WithSystem(t, k)
    \/ \E t \in SystemTypes, k \in ThreadedKinds : WithThreadedSystem(t, k)
    \/ \E t \in SystemTypes : Update(t)
    \/ SystemBegin
    \/ SystemEnd
    \/ UpdateReturn
    \/ \E t \in ThreadIds : ThreadLock(t)
    \/ \E t \in ThreadIds : ThreadSystemBegin(t)
    \/ \E t \in ThreadIds : ThreadSystemEnd(t)
    \/ \E t \in ThreadIds : ThreadExit(t)

SpecWorld == Init /\ [][NextWorld]_vars

----------------------------------------------------------------------------
(* One SimpleComponentManager on its own, driven through with and clear.   *)
(* `inserted` is the reference map: the value given by the with call that  *)
(* found the entity absent, forgotten when the entity is cleared.  `last`  *)
(* records the call and the has(entity) the call started from.             *)

StoreWith(e, v) ==
    /\ store' = with(store, e, v)
    /\ inserted' = IF e \in DOMAIN inserted THEN inserted ELSE MapInsert(inserted, e, v)
    /\ last' = CallWith("with", <<>>, e, v, Some(has(store, e)))
    /\ UNCHANGED <<entity_manager, entity_query_table, steps, world>>

StoreClear(e) ==
    /\ store' = clear(store, e)
    /\ inserted' = MapRemove(inserted, e)
    /\ last' = Call("clear", <<>>, e, Some(has(store, e)))
    /\ UNCHANGED <<entity_manager, entity_query_table, steps, world>>

NextStore ==
    \/ \E e \in StoreEntityIds, v \in Values : StoreWith(e, v)
    \/ \E e \in StoreEntityIds : StoreClear(e)

SpecStore == Init /\ [][NextStore]_vars

----------------------------------------------------------------------------
(* Vocabulary of the properties *)

Registered(m, T) == T \in DOMAIN m.managers

Holds(m, T, e) == Registered(m, T) /\ has(m.managers[T], e)

HoldsAll(m, tup, e) == \A i \in 1 .. Len(tup) : Holds(m, tup[i], e)

AllRegistered(m, tup) == \A i \in 1 .. Len(tup) : Registered(m, tup[i])

NoDuplicates(s) == \A i, j \in 1 .. Len(s) : i # j => s[i] # s[j]

\* the last call was made by the given operation (it is the call that led here)
LastWas(op) == last.op = op

----------------------------------------------------------------------------
(* Tuple queries *)

\* C1: a tuple query over registered types returns exactly the set of entities
\* present in the store of every constituent type, in whatever order the
\* types are listed.
C1_QueryReturnsIntersection ==
    (LastWas("query") /\ AllRegistered(entity_manager, last.types)) =>
        /\ last.ret.some
        /\ Range(last.ret.val) =
              {e \in EntityIds : HoldsAll(entity_manager, last.types, e)}

\* C2: the sequence returned by a tuple query lists each qualifying entity
\* once, in the order of the first constituent type's cached list with the
\* non-qualifying entities filtered out.
C2_QueryListsEachOnceInFirstOrder ==
    (LastWas("query") /\ AllRegistered(entity_manager, last.types)) =>
        /\ last.ret.some
        /\ NoDuplicates(last.ret.val)
        /\ last.ret.val =
              SelectSeq(entity_query_table.query_cache[last.types[1]],
                        LAMBDA e : HoldsAll(entity_manager, last.types, e))

\* C3: a tuple query with a constituent type that was never registered
\* returns None, wherever the unregistered type stands in the tuple.
C3_QueryUnregisteredIsNone ==
    (LastWas("query") /\ ~AllRegistered(entity_manager, last.types)) =>
        last.ret = None

\* C4: once entity_with has given entity e a component of type T, a tuple
\* query containing T that is evaluated in the same frame returns e, provided
\* e holds the other constituent types, whatever queries were evaluated
\* earlier in the frame.
C4_AttachVisibleInSameFrame ==
    \A T \in Types, e \in EntityIds, v \in Values, tup \in Tuples :
        LET m1 == entity_with(entity_manager, T, e, v)
        IN  (/\ ~Holds(entity_manager, T, e)
             /\ T \in Range(tup)
             /\ HoldsAll(m1, tup, e))
            => e \in Range(query(entity_query_table, m1, tup).ret.val)

\* C5: after remove_entity(e) and a tick_frame, a tuple query over types that
\* e held before the removal does not return e, whatever calls came before.
C5_RemovedGoneAfterTick ==
    \A e \in EntityIds, tup \in Tuples :
        HoldsAll(entity_manager, tup, e) =>
            LET m2 == tick_frame(remove_entity(entity_manager, e))
            IN  e \notin Range(query(entity_query_table, m2, tup).ret.val)

\* C6: an entity holding both A and B is in the result of query<(A,B)>, and
\* the query returns the same entities immediately before and immediately
\* after a membership change of an unrelated type C (an attach of C, or the
\* removal of an entity that holds only C).
C6_UnrelatedChangeKeepsResult ==
    \A tup \in Tuples, C \in Types, e \in EntityIds :
        (Len(tup) = 2 /\ C \notin Range(tup) /\ HoldsAll(entity_manager, tup, e)) =>
            LET r1 == query(entity_query_table, entity_manager, tup)
            IN  /\ e \in Range(r1.ret.val)
                /\ \A x \in EntityIds, v \in Values :
                      ~Holds(entity_manager, C, x) =>
                          query(r1.table, entity_with(entity_manager, C, x, v), tup).ret
                              = r1.ret
                /\ \A x \in EntityIds :
                      (/\ Holds(entity_manager, C, x)
                       /\ \A U \in Types \ {C} : ~Holds(entity_manager, U, x)) =>
                          query(r1.table, remove_entity(entity_manager, x), tup).ret
                              = r1.ret

----------------------------------------------------------------------------
(* Single-type queries *)

\* C7: after remove_entity(e) and a tick_frame, query_single<T> no longer
\* lists e (attach Position to entity 0, query_single gives [0]; remove
\* entity 0, tick, query_single gives []).
C7_QuerySingleDropsRemoved ==
    \A T \in Types, e \in EntityIds :
        Holds(entity_manager, T, e) =>
            LET m2 == tick_frame(remove_entity(entity_manager, e))
                r == query_single(entity_query_table, m2, T)
            IN  r.ret.some /\ e \notin Range(r.ret.val)

\* C8: a query_single<T> call that finds a cache entry for T returns that
\* entry's list and leaves the whole query table as it was, whatever T's
\* changed-frame is; a call that finds no entry for a registered T is the one
\* that copies the list from T's store.
C8_QuerySingleServesCache ==
    [][(steps' # steps /\ last'.op = "query_single") =>
          LET T == last'.types[1]
          IN  IF T \in DOMAIN entity_query_table.query_cache
                THEN /\ entity_query_table' = entity_query_table
                     /\ last'.ret = Some(entity_query_table.query_cache[T])
                ELSE Registered(entity_manager, T) =>
                     /\ entity_query_table'.query_cache[T]
                            = entity_manager.managers[T].entities
                     /\ last'.ret = Some(entity_manager.managers[T].entities)]_vars

\* a query_single call was served a list that differs from the store's
C8_Witness ==
    /\ LastWas("query_single")
    /\ Registered(entity_manager, last.types[1])
    /\ last.ret.some
    /\ last.ret.val # entity_manager.managers[last.types[1]].entities
    /\ get_updated_frame(entity_manager, last.types[1]) > 0

----------------------------------------------------------------------------
(* The sparse set *)

\* C9: after any sequence of with and clear calls, components and entities
\* have the same length, entities holds no id twice, the keys of entity_idx
\* are the ids in entities, and entity_idx[entities[i]] == i for every i.
C9_StoreWellFormed ==
    /\ Len(store.components) = Len(store.entities)
    /\ NoDuplicates(store.entities)
    /\ DOMAIN store.entity_idx = Range(store.entities)
    /\ \A i \in 1 .. Len(store.entities) : store.entity_idx[store.entities[i]] = i - 1

\* a clear removed an entity from a store that keeps two or more others
C9_Witness ==
    /\ LastWas("clear")
    /\ last.ret = Some(TRUE)
    /\ Len(store.entities) >= 2

\* C10: component(e) returns the value inserted for e while e holds a
\* component, whatever was inserted or removed for other entities; once e is
\* cleared (or was never given one) component(e) is None and has(e) is false.
C10_ComponentReturnsInserted ==
    /\ \A e \in StoreEntityIds :
          IF e \in DOMAIN inserted
            THEN has(store, e) /\ component(store, e) = Some(inserted[e])
            ELSE ~has(store, e) /\ component(store, e) = None
    /\ LastWas("clear") => (~has(store, last.entity) /\ component(store, last.entity) = None)

\* a clear removed an entity and left two others that hold different values
C10_Witness ==
    /\ LastWas("clear")
    /\ last.ret = Some(TRUE)
    /\ \E a, b \in DOMAIN inserted : inserted[a] # inserted[b]

----------------------------------------------------------------------------
(* The EntityManager: attaching, removing, allocating *)

\* C11: attaching a component of type T to an entity that already holds a T
\* is first-write-wins: the component of the entity stays the first value and
\* T's dense arrays and index map are exactly as before the second attach.
C11_AttachFirstWriteWins ==
    [][(steps' # steps /\ last'.op = "entity_with"
            /\ Holds(entity_manager, last'.types[1], last'.entity)) =>
          LET T == last'.types[1]
              e == last'.entity
          IN  /\ entity_manager'.managers[T] = entity_manager.managers[T]
              /\ component(entity_manager'.managers[T], e)
                    = component(entity_manager.managers[T], e)
              /\ component(entity_manager'.managers[T], e).some]_vars

\* an attach was given a value that differs from the one the entity holds
C11_Witness ==
    /\ LastWas("entity_with")
    /\ Holds(entity_manager, last.types[1], last.entity)
    /\ component(entity_manager.managers[last.types[1]], last.entity)
          # Some(last.value)

\* C12: remove_entity(e) on an allocated id removes e from every registered
\* component store and puts e into the free pool, so when a later entity()
\* call returns e again, e has no component of any type.
C12_RemoveEntityClearsAndFrees ==
    [][(steps' # steps /\ last'.op = "remove_entity"
            /\ EntityContainer_has(entity_manager.container, last'.entity)) =>
          LET e == last'.entity
              m == entity_manager'
          IN  /\ DOMAIN m.managers = DOMAIN entity_manager.managers
              /\ \A T \in DOMAIN m.managers :
                    ~has(m.managers[T], e) /\ component(m.managers[T], e) = None
              /\ e \in Range(m.container.dead_idx)
              /\ EntityContainer_entity(m.container).ret = e =>
                    \A T \in Types : ~Holds(m, T, e)]_vars

\* an allocated entity that a query had listed for some type was removed
C12_Witness ==
    /\ LastWas("remove_entity")
    /\ EntityContainer_has(entity_manager.container, last.entity)
    /\ \E T \in DOMAIN entity_query_table.query_cache :
          /\ last.entity \in Range(entity_query_table.query_cache[T])
          /\ Registered(entity_manager, T)

Min(S) == CHOOSE x \in S : \A y \in S : x <= y

\* C13: an id is never handed out by entity() while some component store
\* still holds an entry for that id.
C13_NoIdHandedOutWhileHeld ==
    LastWas("entity") => \A T \in Types : ~Holds(entity_manager, T, last.entity)

\* C14: when freed ids are available entity() returns the numerically
\* smallest of them, whatever the order they were freed in, and it mints a
\* new id only when none is available.
C14_EntityReusesSmallestFreed ==
    LET c == entity_manager.container
        r == EntityContainer_entity(c)
    IN  IF c.dead_idx # <<>>
            THEN r.ret = Min(Range(c.dead_idx)) /\ r.container.entities = c.entities
            ELSE r.ret = Len(c.entities) /\ Len(r.container.entities) = Len(c.entities) + 1

\* C15: the liveness flag stored for an id is true from the entity() call
\* that returns the id until the id is removed, also when the id is a
\* recycled one.
C15_HandedOutIdIsAlive ==
    LastWas("entity") =>
        entity_manager.container.entities[last.entity + 1].alive

\* C16: freeing an id that was never allocated (id >= number of ids ever
\* minted) leaves the allocator unchanged: the free pool, the stored entities
\* and the id the next entity() call returns are as before the call.
C16_FreeUnallocatedIsNoOp ==
    [][(steps' # steps /\ last'.op = "remove_entity"
            /\ last'.entity >= Len(entity_manager.container.entities)) =>
          /\ entity_manager'.container = entity_manager.container
          /\ EntityContainer_entity(entity_manager'.container).ret
                = EntityContainer_entity(entity_manager.container).ret]_vars

\* remove_entity was called with an id beyond the ids minted so far, while
\* the allocator holds minted and freed ids
C16_Witness ==
    /\ LastWas("remove_entity")
    /\ last.entity >= Len(entity_manager.container.entities)
    /\ entity_manager.container.entities # <<>>
    /\ entity_manager.container.dead_idx # <<>>

----------------------------------------------------------------------------
(* Typed accessors *)

TypedAccessors ==
    {"query_entity", "manager_query", "borrow_manager", "borrow_manager_mut",
     "query_entity_ids"}

\* C17: looking up components of registered types for an entity that lacks
\* one of them (query_entity, query_entity_two, ...) reports None and does
\* not panic.
C17_QueryEntityAbsentIsNone ==
    (/\ LastWas("query_entity")
     /\ AllRegistered(entity_manager, last.types)
     /\ ~HoldsAll(entity_manager, last.types, last.entity))
        => ~last.panic /\ ~last.ret.some

\* C18: every typed accessor of the EntityManager called for a component type
\* that was never registered returns None and does not panic.
C18_AccessorUnregisteredIsNone ==
    (last.op \in TypedAccessors /\ ~AllRegistered(entity_manager, last.types))
        => ~last.panic /\ ~last.ret.some

----------------------------------------------------------------------------
(* Unregistered types and changed-frames *)

\* C19: query_single<T> returns None on every call made while T has never
\* been registered, and such a call leaves the query table's cache unchanged.
C19_QuerySingleUnregistered ==
    \A T \in Types :
        ~Registered(entity_manager, T) =>
            LET r == query_single(entity_query_table, entity_manager, T)
            IN  r.ret = None /\ r.table = entity_query_table

\* C20: remove_entity(e) advances the changed-frame to current frame + 1
\* exactly for the types whose store contained e; the changed-frame of every
\* type whose store did not contain e is left unchanged.
C20_RemoveEntityMarksOnlyHolders ==
    \A e \in EntityIds, T \in DOMAIN entity_manager.managers :
        LET m2 == remove_entity(entity_manager, e)
        IN  IF Holds(entity_manager, T, e)
                THEN get_updated_frame(m2, T) = entity_manager.frame + 1
                ELSE get_updated_frame(m2, T) = get_updated_frame(entity_manager, T)

\* C19, the returned value alone: a query_single<T> call made while T is not
\* registered returns None.
C19_QuerySingleUnregisteredReturnsNone ==
    (LastWas("query_single") /\ ~Registered(entity_manager, last.types[1]))
        => last.ret = None

----------------------------------------------------------------------------
(* Attach and register *)

\* C21: entity_with<T>(e, v) on a type T not yet registered creates T's store,
\* inserts v for e, and leaves T's changed-frame equal to the current frame
\* counter; on an already registered T it likewise sets the changed-frame to
\* the current frame (never frame + 1).
C21_EntityWithMarksCurrentFrame ==
    [][(steps' # steps /\ last'.op = "entity_with") =>
          LET T == last'.types[1]
              e == last'.entity
              v == last'.value
          IN  /\ entity_manager'.frame = entity_manager.frame
              /\ Registered(entity_manager', T)
              /\ T \in DOMAIN entity_manager'.frame_map
              /\ entity_manager'.frame_map[T] = entity_manager.frame
              /\ ~Registered(entity_manager, T) =>
                    /\ entity_manager'.managers[T].entities = <<e>>
                    /\ entity_manager'.managers[T].components = <<v>>
                    /\ component(entity_manager'.managers[T], e) = Some(v)]_vars

\* an attach in a later frame to a type registered in an earlier one, and an
\* attach that registered its type
C21_Witness ==
    /\ LastWas("entity_with")
    /\ entity_manager.frame > 0
    /\ \E U \in DOMAIN entity_manager.frame_map :
          entity_manager.frame_map[U] # entity_manager.frame
    /\ Len(entity_manager.managers[last.types[1]].entities) = 1

\* C22: register<T> is idempotent: the first call creates an empty store for T
\* with changed-frame equal to the current frame; any later register<T>, at
\* any frame and after any attaches, leaves T's store contents and T's
\* changed-frame unchanged.
C22_RegisterIdempotent ==
    [][(steps' # steps /\ last'.op = "register") =>
          LET T == last'.types[1]
          IN  IF Registered(entity_manager, T)
                THEN /\ entity_manager'.managers[T] = entity_manager.managers[T]
                     /\ get_updated_frame(entity_manager', T)
                            = get_updated_frame(entity_manager, T)
                     /\ entity_manager' = entity_manager
                ELSE /\ Registered(entity_manager', T)
                     /\ entity_manager'.managers[T] = SimpleComponentManager_new
                     /\ T \in DOMAIN entity_manager'.frame_map
                     /\ entity_manager'.frame_map[T] = entity_manager.frame]_vars

\* register was called for a type that holds a component and whose
\* changed-frame lies before the current frame
C22_Witness ==
    /\ LastWas("register")
    /\ Registered(entity_manager, last.types[1])
    /\ entity_manager.managers[last.types[1]].entities # <<>>
    /\ get_updated_frame(entity_manager, last.types[1]) < entity_manager.frame

----------------------------------------------------------------------------
(* The World *)

\* the sweep of the current update call is over (update is about to spawn
\* the thread and return)
SweepDone ==
    /\ world.main.pc = "sweep"
    /\ world.main.idx > Len(update_systems(world, world.main.system_type))

LogIds == [k \in 1 .. Len(world.main.log) |-> world.main.log[k].id]

\* C23: World::update(phase) invokes every system registered for that phase
\* exactly once per call, in the order in which the systems were registered.
C23_UpdateInvokesInRegistrationOrder ==
    LET registered == world.registered[world.main.system_type]
    IN  /\ world.main.pc \in {"sweep", "in_update"} =>
              /\ Len(LogIds) <= Len(registered)
              /\ LogIds = SubSeq(registered, 1, Len(LogIds))
        /\ SweepDone => LogIds = registered

\* a sweep over two systems of one phase is over, a system of the other
\* phase having been registered between them
C23_Witness ==
    /\ SweepDone
    /\ Len(world.main.log) = 2
    /\ world.main.log[2].id > world.main.log[1].id + 1

\* C24: World::update ticks the frame once after each system invocation: with
\* n systems in the phase and frame counter f0 at entry, the k-th system
\* (1-based) observes frame f0 + k - 1 and the counter is f0 + n when the
\* sweep over those systems ends.
C24_UpdateTicksOncePerSystem ==
    /\ \A k \in 1 .. Len(world.main.log) :
          world.main.log[k].frame = world.main.f0 + k - 1
    /\ SweepDone =>
          entity_manager.frame
              = world.main.f0 + Len(update_systems(world, world.main.system_type))

\* C25: a system whose update returns None does not abort World::update: every
\* later system of the phase is still invoked, the frame is still ticked
\* after the returning system, and the effects of earlier systems are not
\* rolled back.
C25_NoneDoesNotAbort ==
    [][(/\ world.main.pc = "in_update"
        /\ world'.main.pc = "sweep"
        /\ ~world'.main.log[world.main.idx].ret.some) =>
          LET systems == update_systems(world, world.main.system_type)
              i == world.main.idx
              r == System_update(systems[i], entity_manager, entity_query_table)
          IN  /\ world'.main.idx = i + 1
              /\ update_systems(world', world.main.system_type) = systems
              /\ entity_manager'.frame = entity_manager.frame + 1
              /\ entity_manager' = tick_frame(r.manager)
              /\ entity_query_table' = r.table]_vars

\* a system that returned None was followed by a later system of the sweep,
\* after an earlier system had attached components
C25_Witness ==
    /\ SweepDone
    /\ Len(world.main.log) = 3
    /\ world.main.log[1].ret.some
    /\ ~world.main.log[2].ret.some
    /\ world.main.log[3].ret.some
    /\ Holds(entity_manager, Position, 0)
    /\ component(entity_manager.managers[Position], 0).val > 1

\* the system updates that are being executed: by the caller's update call
\* and by the spawned threads
InUpdate ==
    (IF world.main.pc = "in_update" THEN {0} ELSE {})
        \cup {t \in 1 .. Len(world.threads) : world.threads[t].pc = "in_update"}

\* C26: across any sequence of World::update calls, no two system updates
\* (including systems registered with with_threaded_system) execute at the
\* same time against the same World's EntityManager and EntityQueryTable,
\* and no system update overlaps with the caller's own access to them after
\* update returns.
C26_SystemUpdatesNeverOverlap ==
    /\ Cardinality(InUpdate) <= 1
    /\ ~world.overlap

\* C27: with one system registered under SystemType::Loop that iterates
\* query<(Named, Position)> and mutates the Position of each returned entity,
\* each World::update(Loop) call applies that mutation exactly once to every
\* entity holding both Named and Position.
C27_UpdateMutatesEachOnce ==
    (/\ SweepDone
     /\ world.main.system_type = "Loop"
     /\ Len(update_systems(world, "Loop")) = 1
     /\ update_systems(world, "Loop")[1].kind = "NameSystem") =>
        \A e \in EntityIds :
            HoldsAll(world.main.entry, <<Named, Position>>, e) =>
                /\ Holds(entity_manager, Position, e)
                /\ component(entity_manager.managers[Position], e).val
                      = component(world.main.entry.managers[Position], e).val + 1

----------------------------------------------------------------------------
(* The rebuild pass of the tuple query, and the frame counter *)

\* the constituent types a tuple query processes: those up to the first
\* unregistered one
Processed(m, tup) ==
    {tup[i] : i \in {j \in 1 .. Len(tup) : AllRegistered(m, SubSeq(tup, 1, j))}}

\* C28: when a tuple query processes a constituent type T whose changed-frame
\* equals the frame the query table recorded for T, the cached list for T and
\* the recorded frame are left unchanged (no copy from the store is made).
C28_SameFrameKeepsCache ==
    [][(steps' # steps /\ last'.op = "query") =>
          \A T \in Processed(entity_manager, last'.types) :
              (/\ T \in DOMAIN entity_query_table.frames
               /\ entity_query_table.frames[T] = get_updated_frame(entity_manager, T)) =>
                  /\ T \in DOMAIN entity_query_table.query_cache
                  /\ entity_query_table'.query_cache[T] = entity_query_table.query_cache[T]
                  /\ entity_query_table'.frames[T] = entity_query_table.frames[T]]_vars

\* a tuple query left a cached list that differs from the store's list, the
\* recorded frame being the type's changed-frame
C28_Witness ==
    /\ LastWas("query")
    /\ \E T \in Processed(entity_manager, last.types) :
          /\ T \in DOMAIN entity_query_table.frames
          /\ entity_query_table.frames[T] = get_updated_frame(entity_manager, T)
          /\ entity_query_table.query_cache[T] # entity_manager.managers[T].entities

\* C29: the EntityManager frame counter never decreases: it starts at 0,
\* changes only through tick_frame and by exactly +1 per call, and no other
\* operation (register, entity, entity_with, remove_entity, any query)
\* modifies it.
C29_FrameOnlyTicks ==
    /\ entity_manager.frame = 0
    /\ [][/\ entity_manager'.frame >= entity_manager.frame
          /\ (steps' # steps /\ last'.op = "tick_frame") =>
                entity_manager'.frame = entity_manager.frame + 1
          /\ (steps' # steps /\ last'.op # "tick_frame") =>
                entity_manager'.frame = entity_manager.frame]_vars

\* the frame was ticked a second time, after a removal had marked a type for
\* the following frame
C29_Witness ==
    /\ LastWas("tick_frame")
    /\ entity_manager.frame = 2
    /\ \E T \in DOMAIN entity_manager.frame_map : entity_manager.frame_map[T] = 2

\* C30: when a tuple query processes a registered constituent type T for
\* which the query table has no cache entry, no recorded frame, or a recorded
\* frame different from T's changed-frame, the cached list for T becomes an
\* exact copy of T's store entity list and the recorded frame becomes T's
\* changed-frame.
C30_ChangedFrameRebuildsCache ==
    [][(steps' # steps /\ last'.op = "query") =>
          \A T \in Processed(entity_manager, last'.types) :
              (\/ T \notin DOMAIN entity_query_table.query_cache
               \/ T \notin DOMAIN entity_query_table.frames
               \/ entity_query_table.frames[T] # get_updated_frame(entity_manager, T)) =>
                  /\ T \in DOMAIN entity_query_table'.query_cache
                  /\ entity_query_table'.query_cache[T] = entity_manager.managers[T].entities
                  /\ T \in DOMAIN entity_query_table'.frames
                  /\ entity_query_table'.frames[T] = get_updated_frame(entity_manager, T)]_vars

\* the only query of a three-call sequence found a type whose store had been
\* filled and whose changed-frame had moved to 1, and left the store's list
\* and that frame in the table
C30_Witness ==
    /\ LastWas("query")
    /\ steps = 3
    /\ \E T \in Processed(entity_manager, last.types) :
          /\ T \in DOMAIN entity_query_table.frames
          /\ entity_query_table.query_cache[T] = entity_manager.managers[T].entities
          /\ entity_query_table.query_cache[T] # <<>>
          /\ entity_query_table.frames[T] = 1
          /\ get_updated_frame(entity_manager, T) = 1

----------------------------------------------------------------------------
(* Cache coherence, the free pool and the changed-frames *)

\* C31: immediately after a tuple query over registered type T returns, the
\* query table's cached list for T equals the current entity list of T's
\* store (the cache is never stale with respect to a membership change that
\* happened before the query).
C31_QueryLeavesFreshCache ==
    LastWas("query") =>
        \A T \in Processed(entity_manager, last.types) :
            /\ T \in DOMAIN entity_query_table.query_cache
            /\ entity_query_table.query_cache[T] = entity_manager.managers[T].entities

\* C32: over any sequence of entity() and remove_entity() calls (including
\* removing the same id more than once), the free pool holds each id at most
\* once, so entity() never returns an id that was already returned and not
\* removed since: two entity() calls in a row return different ids.
C32_FreePoolHoldsIdOnce ==
    LET c == entity_manager.container
        r1 == EntityContainer_entity(c)
        r2 == EntityContainer_entity(r1.container)
    IN  /\ NoDuplicates(c.dead_idx)
        /\ r1.ret # r2.ret

\* C33: for each registered component type, the changed-frame recorded by the
\* EntityManager never decreases over any sequence of register, entity_with,
\* remove_entity and tick_frame operations.
C33_ChangedFrameNeverDecreases ==
    \A T \in DOMAIN entity_manager.managers :
        LET before == get_updated_frame(entity_manager, T)
        IN  /\ \A U \in Types :
                  get_updated_frame(register(entity_manager, U), T) >= before
            /\ \A U \in Types, e \in EntityIds, v \in Values :
                  get_updated_frame(entity_with(entity_manager, U, e, v), T) >= before
            /\ \A e \in EntityIds :
                  get_updated_frame(remove_entity(entity_manager, e), T) >= before
            /\ get_updated_frame(tick_frame(entity_manager), T) >= before

\* the managers one call of entity_with, remove_entity or tick_frame (or no
\* call) leads to
AfterOneChange(m) ==
    {m, tick_frame(m)}
        \cup {remove_entity(m, e) : e \in EntityIds}
        \cup {entity_with(m, U, e, v) : U \in Types, e \in EntityIds, v \in Values}

\* C34: once query_single<T> has returned a list, every later query_single<T>
\* returns that same list, whatever attach, remove_entity, tick_frame and
\* tuple-query calls (including tuple queries that contain T) happen in
\* between.
C34_QuerySingleListIsFixed ==
    (LastWas("query_single") /\ last.ret.some) =>
        \A m1 \in AfterOneChange(entity_manager), tup \in Tuples :
            LET t1 == query(entity_query_table, m1, tup).table
            IN  query_single(t1, m1, last.types[1]).ret = last.ret

\* C34, as amended: once the query table holds a list for T, every call other
\* than a tuple query that contains T leaves it the list query_single<T>
\* returns.
C34_QuerySingleListFixedButForTupleQuery ==
    [][\A T \in DOMAIN entity_query_table.query_cache :
          ~(steps' # steps /\ last'.op = "query" /\ T \in Range(last'.types)) =>
              query_single(entity_query_table', entity_manager', T).ret
                  = Some(entity_query_table.query_cache[T])]_vars

\* query_single<T> returned a list that differs from the store's, after an
\* attach of T and a tuple query over another type
C34_Witness ==
    /\ LastWas("query_single")
    /\ last.ret.some
    /\ Registered(entity_manager, last.types[1])
    /\ last.ret.val # entity_manager.managers[last.types[1]].entities
    /\ last.types[1] \notin DOMAIN entity_query_table.frames
    /\ entity_query_table.frames # EmptyMap

----------------------------------------------------------------------------
(* Phases of the World *)

OtherPhase(system_type) == IF system_type = "Init" THEN "Loop" ELSE "Init"

\* C35: a system registered with with_system(P, s) is invoked by
\* World::update(P) and is never invoked by World::update(Q) for the other
\* phase Q, for P, Q in {Init, Loop}.
C35_UpdateInvokesOwnPhaseOnly ==
    LET P == world.main.system_type
    IN  /\ \A k \in 1 .. Len(world.main.log) :
              /\ world.main.log[k].id \in Range(world.registered[P])
              /\ world.main.log[k].id \notin Range(world.registered[OtherPhase(P)])
        /\ SweepDone => Range(world.registered[P]) \subseteq Range(LogIds)

\* a sweep that invoked a system is over while a system is registered for
\* the other phase
C35_Witness ==
    /\ SweepDone
    /\ world.main.log # <<>>
    /\ world.registered[OtherPhase(world.main.system_type)] # <<>>

----------------------------------------------------------------------------
(* Removal from the sparse set *)

\* C36: removing entity e from a store that holds it moves only the last
\* dense element into e's former slot and shortens the arrays by one: every
\* other entity keeps its dense index and index-map entry, the relocated
\* entity's index-map entry becomes e's former index, and e's index-map entry
\* is deleted (also when e itself is the last element).
C36_ClearSwapsLastIntoSlot ==
    [][(last'.op = "clear" /\ has(store, last'.entity)) =>
          LET e == last'.entity
              n == Len(store.entities)
              index == store.entity_idx[e]
              lastEntity == store.entities[n]
          IN  /\ Len(store'.entities) = n - 1
              /\ Len(store'.components) = n - 1
              /\ e \notin DOMAIN store'.entity_idx
              /\ DOMAIN store'.entity_idx = (DOMAIN store.entity_idx) \ {e}
              /\ \A i \in 1 .. (n - 1) :
                    i # index + 1 =>
                        /\ store'.entities[i] = store.entities[i]
                        /\ store'.components[i] = store.components[i]
                        /\ store'.entity_idx[store.entities[i]]
                              = store.entity_idx[store.entities[i]]
              /\ lastEntity # e =>
                    /\ store'.entities[index + 1] = lastEntity
                    /\ store'.components[index + 1] = store.components[n]
                    /\ store'.entity_idx[lastEntity] = index]_vars

\* a clear removed an entity from a store of three; the two that remain hold
\* different values
C36_Witness ==
    /\ LastWas("clear")
    /\ last.ret = Some(TRUE)
    /\ Len(store.entities) = 2
    /\ store.components[1] # store.components[2]

\* C37: clear(e) on a store that does not hold e is a no-op: components,
\* entities and entity_idx are unchanged and no panic occurs, including on an
\* empty store.
C37_ClearAbsentIsNoOp ==
    [][(last'.op = "clear" /\ ~has(store, last'.entity)) =>
          /\ store'.components = store.components
          /\ store'.entities = store.entities
          /\ store'.entity_idx = store.entity_idx]_vars

\* a clear was called for an entity a non-empty store does not hold
C37_Witness ==
    /\ LastWas("clear")
    /\ last.ret = Some(FALSE)
    /\ Len(store.entities) >= 2

====
